---- MODULE Spec2Model ----
(***************************************************************************)
(* Symptom-Diagnosis (src/app.py): the CSV loader that builds disease_map  *)
(* and symptom_list, and the Flask handlers register, login, logout,       *)
(* submit, history and download over the users and reports tables.         *)
(*                                                                         *)
(* A Python str is a sequence of one-character strings.  A DataFrame cell  *)
(* is either missing (NaN) or a text.  A match_percent is kept in          *)
(* hundredths (33.33 is 3333), so that round(x, 2) is integer arithmetic.  *)
(***************************************************************************)
EXTENDS Integers, Sequences, FiniteSets, TLC

VARIABLES
    pc,            \* "import" while the module-level code runs, then "serving"
    df,            \* the DataFrame read from CSV_FILE: [columns, rows]
    disease_map,   \* dict in insertion order: Seq of [disease, symptoms, precautions, medicines]
    hash_order,    \* per disease, the iteration order of its precautions / medicines sets
    symptom_list,  \* the autocomplete list
    users,         \* users table: Seq of [username, password]; id = index
    reports,       \* reports table: Seq of rows; id = index
    session,       \* per client, the Flask session: NoSession or [username, user_id]
    request,       \* the last request received: its route, client and form
    response       \* what the handler returned for it

vars == <<pc, df, disease_map, hash_order, symptom_list, users, reports, session,
          request, response>>

----------------------------------------------------------------------------
(* Bounds of the model *)

MaxRows == 2        \* rows of a dataset given to the loader
MaxQueryRows == 3   \* rows of a dataset that is queried with every typed text
MaxPieces == 3      \* comma-separated pieces of a typed text
MaxReports == 2     \* rows of the reports table

----------------------------------------------------------------------------
(* Python str operations *)

Min(S) == CHOOSE x \in S : \A y \in S : x <= y
Max(S) == CHOOSE x \in S : \A y \in S : x >= y
Range(s) == {s[i] : i \in 1..Len(s)}

UpperChars == <<"A", "B", "C", "D", "E", "F", "G", "H", "I", "J", "K", "L", "M",
                "N", "O", "P", "Q", "R", "S", "T", "U", "V", "W", "X", "Y", "Z">>
LowerChars == <<"a", "b", "c", "d", "e", "f", "g", "h", "i", "j", "k", "l", "m",
                "n", "o", "p", "q", "r", "s", "t", "u", "v", "w", "x", "y", "z">>

\* the characters in code-point order: space, comma, A-Z, a-z
CodeOrder == <<" ", ",">> \o UpperChars \o LowerChars

Ord(c) == CHOOSE i \in 1..Len(CodeOrder) : CodeOrder[i] = c

\* str.lower() on one character
LowerChar(c) == IF \E i \in 1..Len(UpperChars) : UpperChars[i] = c
                THEN LowerChars[CHOOSE i \in 1..Len(UpperChars) : UpperChars[i] = c]
                ELSE c

\* str.lower()
Lower(s) == [i \in 1..Len(s) |-> LowerChar(s[i])]

\* str.strip()
Strip(s) == LET keep == {i \in 1..Len(s) : s[i] # " "}
            IN  IF keep = {} THEN <<>> ELSE SubSeq(s, Min(keep), Max(keep))

\* str.split(","): the pieces between commas, empty pieces kept
RECURSIVE Split(_)
Split(s) == LET commas == {i \in 1..Len(s) : s[i] = ","}
            IN  IF commas = {} THEN <<s>>
                ELSE <<SubSeq(s, 1, Min(commas) - 1)>>
                       \o Split(SubSeq(s, Min(commas) + 1, Len(s)))

\* needle in hay
SubstringOf(needle, hay) ==
    \E i \in 0..(Len(hay) - Len(needle)) : SubSeq(hay, i + 1, i + Len(needle)) = needle

\* s < t for Python str: by code point, a proper prefix first
RECURSIVE StrLess(_, _)
StrLess(s, t) ==
    IF t = <<>> THEN FALSE
    ELSE IF s = <<>> THEN TRUE
    ELSE IF s[1] # t[1] THEN Ord(s[1]) < Ord(t[1])
    ELSE StrLess(Tail(s), Tail(t))

\* sorted(S) for a set of str
RECURSIVE SortedStrs(_)
SortedStrs(S) ==
    IF S = {} THEN <<>>
    ELSE LET m == CHOOSE x \in S : \A y \in S : y = x \/ StrLess(x, y)
         IN  <<m>> \o SortedStrs(S \ {m})

\* every order in which a Python set holding S can be iterated
RECURSIVE IterOrders(_)
IterOrders(S) ==
    IF S = {} THEN {<<>>}
    ELSE UNION {{<<x>> \o rest : rest \in IterOrders(S \ {x})} : x \in S}

----------------------------------------------------------------------------
(* The DataFrame and the knowledge-base loader (app.py lines 22-68) *)

NaN == [na |-> TRUE, text |-> <<>>]
Txt(s) == [na |-> FALSE, text |-> s]

\* Series.astype(str) / str(cell): a missing cell reads "nan"
AsTypeStr(cell) == IF cell.na THEN <<"n", "a", "n">> ELSE cell.text

\* cols_lower = {c.strip().lower(): c for c in df.columns}: a later column
\* with the same normalised name replaces an earlier one
ColsLower(columns, name) ==
    LET hits == {i \in 1..Len(columns) : Lower(Strip(columns[i])) = name}
    IN  IF hits = {} THEN 0 ELSE Max(hits)

\* find_col: the column of the first candidate that is present, 0 for None
RECURSIVE find_col(_, _)
find_col(columns, candidates) ==
    IF candidates = <<>> THEN 0
    ELSE IF ColsLower(columns, Head(candidates)) # 0
         THEN ColsLower(columns, Head(candidates))
         ELSE find_col(columns, Tail(candidates))

SymptomNames == << <<"s","y","m","p","t","o","m">>, <<"s","y","m","p","t","o","m","s">> >>
DiseaseNames == << <<"d","i","s","e","a","s","e">>, <<"d","i","s","e","a","s","e","s">> >>
PrecautionNames == << <<"p","r","e","c","a","u","t","i","o","n">>,
                      <<"p","r","e","c","a","u","t","i","o","n","s">>,
                      <<"t","r","e","a","t","m","e","n","t">> >>
MedicineNames == << <<"m","e","d","i","c","i","n","e">>, <<"m","e","d","i","c","i","n","e","s">>,
                    <<"d","r","u","g">>, <<"d","r","u","g","s">> >>

sym_col(d) == find_col(d.columns, SymptomNames)
dis_col(d) == find_col(d.columns, DiseaseNames)
prec_col(d) == find_col(d.columns, PrecautionNames)
med_col(d) == find_col(d.columns, MedicineNames)

\* df["Symptom"] = df[sym_col].astype(str) if sym_col else "", and the like
Canonical(d, col, r) == IF col # 0 THEN AsTypeStr(d.rows[r][col]) ELSE <<>>

\* the trimmed non-empty pieces of a symptom string
SymptomPieces(s) == {Strip(p) : p \in Range(Split(s))} \ {<<>>}

IsNanWord(s) == Lower(s) = <<"n", "a", "n">>

IndexOf(dm, disease) ==
    IF \E i \in 1..Len(dm) : dm[i].disease = disease
    THEN CHOOSE i \in 1..Len(dm) : dm[i].disease = disease
    ELSE 0

\* one iteration of "for _, row in df.iterrows()"
LoadRow(dm, d, r) ==
    LET disease == Strip(Canonical(d, dis_col(d), r))
        dm1  == IF IndexOf(dm, disease) = 0
                THEN Append(dm, [disease |-> disease, symptoms |-> {},
                                 precautions |-> {}, medicines |-> {}])
                ELSE dm
        k    == IndexOf(dm1, disease)
        prec == Strip(Canonical(d, prec_col(d), r))
        med  == Strip(Canonical(d, med_col(d), r))
    IN  IF disease = <<>> THEN dm
        ELSE [dm1 EXCEPT
                ![k].symptoms = @ \cup SymptomPieces(Canonical(d, sym_col(d), r)),
                ![k].precautions =
                    IF prec # <<>> /\ ~IsNanWord(prec) THEN @ \cup {prec} ELSE @,
                ![k].medicines =
                    IF med # <<>> /\ ~IsNanWord(med) THEN @ \cup {med} ELSE @]

\* the whole loop over the first n rows
RECURSIVE LoadRows(_, _)
LoadRows(d, n) == IF n = 0 THEN <<>> ELSE LoadRow(LoadRows(d, n - 1), d, n)

BuildDiseaseMap(d) == LoadRows(d, Len(d.rows))

AllSymptoms(dm) == UNION {dm[i].symptoms : i \in 1..Len(dm)}

\* (mutant) the sort without key=str.lower
RECURSIVE InsertByCodePoint(_, _)
InsertByCodePoint(sorted, x) ==
    IF sorted = <<>> THEN <<x>>
    ELSE IF StrLess(x, Head(sorted)) THEN <<x>> \o sorted
    ELSE <<Head(sorted)>> \o InsertByCodePoint(Tail(sorted), x)

\* sorted(..., key=lambda x: x.lower()) is stable: x goes after every element
\* whose key is not greater than its own
RECURSIVE InsertByLower(_, _)
InsertByLower(sorted, x) ==
    IF sorted = <<>> THEN <<x>>
    ELSE IF StrLess(Lower(x), Lower(Head(sorted))) THEN <<x>> \o sorted
    ELSE <<Head(sorted)>> \o InsertByLower(Tail(sorted), x)

RECURSIVE SortedByLower(_)
SortedByLower(order) ==
    IF order = <<>> THEN <<>>
    ELSE InsertByLower(SortedByLower(SubSeq(order, 1, Len(order) - 1)), order[Len(order)])

\* the interpreter's iteration order of each disease's precautions and medicines
HashOrders(dm) ==
    {h \in [1..Len(dm) -> UNION {[precautions : IterOrders(dm[i].precautions),
                                  medicines : IterOrders(dm[i].medicines)] : i \in 1..Len(dm)}] :
        \A i \in 1..Len(dm) : /\ Range(h[i].precautions) = dm[i].precautions
                              /\ Len(h[i].precautions) = Cardinality(dm[i].precautions)
                              /\ Range(h[i].medicines) = dm[i].medicines
                              /\ Len(h[i].medicines) = Cardinality(dm[i].medicines)}

\* a session without "username" / the session login() leaves
Clients == {1, 2}

NoSession == [logged_in |-> FALSE, username |-> <<>>, user_id |-> 0]
NoRequest == [route |-> "none", client |-> 0]
NoResponse == [kind |-> "none", client |-> 0]

\* the module-level code: build disease_map and symptom_list from df
LoadCSV ==
    /\ pc = "import"
    /\ pc' = "serving"
    /\ disease_map' = BuildDiseaseMap(df)
    /\ hash_order' \in HashOrders(disease_map')
    /\ \E order \in IterOrders(AllSymptoms(disease_map')) :
           symptom_list' = SortedByLower(order)
    /\ UNCHANGED <<df, users, reports, session, request, response>>

----------------------------------------------------------------------------
(* Matching and ranking inside submit() (app.py lines 174-202) *)

\* (mutant) the filter "if s" in place of "if s.strip()"
RECURSIVE KeepTokensUnstripped(_)
KeepTokensUnstripped(pieces) ==
    IF pieces = <<>> THEN <<>>
    ELSE IF Head(pieces) # <<>>
         THEN <<Lower(Strip(Head(pieces)))>> \o KeepTokensUnstripped(Tail(pieces))
         ELSE KeepTokensUnstripped(Tail(pieces))

\* input_symptoms = [s.strip().lower() for s in typed.split(",") if s.strip()]
RECURSIVE KeepTokens(_)
KeepTokens(pieces) ==
    IF pieces = <<>> THEN <<>>
    ELSE IF Strip(Head(pieces)) # <<>>
         THEN <<Lower(Strip(Head(pieces)))>> \o KeepTokens(Tail(pieces))
         ELSE KeepTokens(Tail(pieces))

\* (mutant) the tokens with repeats dropped
RECURSIVE DropRepeats(_)
DropRepeats(tokens) ==
    IF tokens = <<>> THEN <<>>
    ELSE LET front == DropRepeats(SubSeq(tokens, 1, Len(tokens) - 1))
         IN  IF tokens[Len(tokens)] \in Range(front) THEN front
             ELSE Append(front, tokens[Len(tokens)])

InputSymptomsDeduplicated(typed) == DropRepeats(KeepTokens(Split(typed)))

InputSymptoms(typed) == KeepTokens(Split(typed))

\* (mutant) the rule without "ds_lower in user_sym"
SymptomMatchesOneWay(user_sym, ds_lower) ==
    \/ user_sym = ds_lower
    \/ SubstringOf(user_sym, ds_lower)

\* user_sym == ds_lower or user_sym in ds_lower or ds_lower in user_sym
SymptomMatches(user_sym, ds_lower) ==
    \/ user_sym = ds_lower
    \/ SubstringOf(user_sym, ds_lower)
    \/ SubstringOf(ds_lower, user_sym)

\* the loop "for user_sym in input_symptoms" over the first k tokens
RECURSIVE Matched(_, _, _)
Matched(input_symptoms, k, symptoms) ==
    IF k = 0 THEN {}
    ELSE Matched(input_symptoms, k - 1, symptoms)
           \cup {s \in symptoms : SymptomMatches(input_symptoms[k], Lower(s))}

\* round(m / n * 100, 2) in hundredths, ties to even
MatchPercent(m, n) ==
    LET q == (10000 * m) \div n
        r == (10000 * m) % n
    IN  IF 2 * r > n THEN q + 1
        ELSE IF 2 * r < n THEN q
        ELSE IF q % 2 = 0 THEN q ELSE q + 1

NoInformation == <<"N", "o", " ", "i", "n", "f", "o", "r", "m", "a", "t", "i", "o", "n">>

\* next(iter(the set), "No information")
FirstOf(order) == IF order = <<>> THEN NoInformation ELSE Head(order)

ResultEntry(dm, ho, i, input_symptoms) ==
    LET matched_list == SortedStrs(Matched(input_symptoms, Len(input_symptoms), dm[i].symptoms))
    IN  [disease |-> dm[i].disease,
         matched_symptoms |-> matched_list,
         total_symptoms |-> Cardinality(dm[i].symptoms),
         match_percent |-> MatchPercent(Len(matched_list), Len(input_symptoms)),
         precaution |-> FirstOf(ho[i].precautions),
         medicine |-> FirstOf(ho[i].medicines)]

\* the loop "for disease, info in disease_map.items()" over the first n diseases
RECURSIVE ScanDiseases(_, _, _, _)
ScanDiseases(dm, ho, n, input_symptoms) ==
    IF n = 0 THEN <<>>
    ELSE LET before == ScanDiseases(dm, ho, n - 1, input_symptoms)
             entry == ResultEntry(dm, ho, n, input_symptoms)
         IN  IF entry.matched_symptoms # <<>> THEN Append(before, entry) ELSE before

\* (mutant) an entry goes before the entries with the same match_percent
RECURSIVE InsertByPercentUnstable(_, _)
InsertByPercentUnstable(sorted, e) ==
    IF sorted = <<>> THEN <<e>>
    ELSE IF e.match_percent >= Head(sorted).match_percent THEN <<e>> \o sorted
    ELSE <<Head(sorted)>> \o InsertByPercentUnstable(Tail(sorted), e)

\* sorted(..., key=match_percent, reverse=True) is stable: an entry goes after
\* every entry whose match_percent is not smaller than its own
RECURSIVE InsertByPercent(_, _)
InsertByPercent(sorted, e) ==
    IF sorted = <<>> THEN <<e>>
    ELSE IF e.match_percent > Head(sorted).match_percent THEN <<e>> \o sorted
    ELSE <<Head(sorted)>> \o InsertByPercent(Tail(sorted), e)

RECURSIVE SortByPercentDesc(_)
SortByPercentDesc(entries) ==
    IF entries = <<>> THEN <<>>
    ELSE InsertByPercent(SortByPercentDesc(SubSeq(entries, 1, Len(entries) - 1)),
                         entries[Len(entries)])

\* results, as submit() hands it to the template
Query(dm, ho, typed) ==
    LET input_symptoms == InputSymptoms(Strip(typed))
    IN  IF input_symptoms # <<>>
        THEN SortByPercentDesc(ScanDiseases(dm, ho, Len(dm), input_symptoms))
        ELSE <<>>

----------------------------------------------------------------------------
(* The request handlers (app.py lines 98-108 and 114-297) *)

\* generate_password_hash / check_password_hash
PasswordHash(password_raw) == <<"hash", password_raw>>
CheckPasswordHash(hashed, password) == hashed = PasswordHash(password)

UserId(username) ==
    IF \E i \in 1..Len(users) : users[i].username = username
    THEN CHOOSE i \in 1..Len(users) : users[i].username = username
    ELSE 0

Redirect(c, to) == [kind |-> "redirect", client |-> c, to |-> to]

\* GET /
Index(c) ==
    /\ pc = "serving"
    /\ request' = [route |-> "index", client |-> c]
    /\ response' = IF ~session[c].logged_in THEN Redirect(c, "login")
                   ELSE [kind |-> "index", client |-> c,
                         username |-> session[c].username, symptom_list |-> symptom_list]
    /\ UNCHANGED <<pc, df, disease_map, hash_order, symptom_list, users, reports, session>>

\* POST /register
Register(c, username_raw, password_raw) ==
    LET username == Strip(username_raw)
    IN  /\ pc = "serving"
        /\ request' = [route |-> "register", client |-> c,
                       username |-> username_raw, password |-> password_raw]
        /\ IF username = <<>> \/ password_raw = <<>>
           THEN /\ response' = Redirect(c, "register")
                /\ UNCHANGED users
           ELSE IF UserId(username) # 0
           THEN /\ response' = Redirect(c, "register")
                /\ UNCHANGED users
           ELSE /\ users' = Append(users, [username |-> username,
                                           password |-> PasswordHash(password_raw)])
                /\ response' = Redirect(c, "login")
        /\ UNCHANGED <<pc, df, disease_map, hash_order, symptom_list, reports, session>>

\* POST /login
Login(c, username_raw, password) ==
    LET username == Strip(username_raw)
        id == UserId(username)
    IN  /\ pc = "serving"
        /\ request' = [route |-> "login", client |-> c,
                       username |-> username_raw, password |-> password]
        /\ IF id # 0 /\ CheckPasswordHash(users[id].password, password)
           THEN /\ session' = [session EXCEPT ![c] =
                                  [logged_in |-> TRUE, username |-> username, user_id |-> id]]
                /\ response' = Redirect(c, "index")
           ELSE /\ response' = Redirect(c, "login")
                /\ UNCHANGED session
        /\ UNCHANGED <<pc, df, disease_map, hash_order, symptom_list, users, reports>>

\* GET /logout
Logout(c) ==
    /\ pc = "serving"
    /\ request' = [route |-> "logout", client |-> c]
    /\ session' = [session EXCEPT ![c] = NoSession]
    /\ response' = Redirect(c, "login")
    /\ UNCHANGED <<pc, df, disease_map, hash_order, symptom_list, users, reports>>

\* (mutant) precaution and medicine passed in the wrong order
ReportRowSwapped(username, symptoms_text, best) ==
    [username |-> username, symptoms |-> symptoms_text, disease |-> best.disease,
     precaution |-> best.medicine, medicine |-> best.precaution,
     match_percent |-> best.match_percent]

\* save_report: the inserted row (created_at is not modelled)
ReportRow(username, symptoms_text, best) ==
    [username |-> username, symptoms |-> symptoms_text, disease |-> best.disease,
     precaution |-> best.precaution, medicine |-> best.medicine,
     match_percent |-> best.match_percent]

\* POST /submit: what it answers and what it stores
SubmitReply(c, typed_raw) ==
    LET typed == Strip(typed_raw)
        results == Query(disease_map, hash_order, typed_raw)
    IN  /\ request' = [route |-> "submit", client |-> c, typed |-> typed_raw]
        /\ IF ~session[c].logged_in
           THEN /\ response' = Redirect(c, "login")
                /\ UNCHANGED reports
           ELSE IF results # <<>>
           THEN /\ reports' = Append(reports, ReportRow(session[c].username, typed, Head(results)))
                /\ response' = [kind |-> "result", client |-> c, results |-> results,
                                typed_symptom |-> typed, report_id |-> Len(reports) + 1]
           ELSE /\ response' = [kind |-> "result", client |-> c, results |-> results,
                                typed_symptom |-> typed, report_id |-> 0]
                /\ UNCHANGED reports

\* (mutant) info["precautions"].pop() in place of next(iter(...)): every
\* disease of the result loses its representative precaution
SubmitPopping(c, typed_raw) ==
    LET hit(i) == /\ hash_order[i].precautions # <<>>
                  /\ \E j \in 1..Len(response'.results) :
                         response'.results[j].disease = disease_map[i].disease
    IN  /\ pc = "serving"
        /\ SubmitReply(c, typed_raw)
        /\ IF response'.kind = "result"
           THEN /\ disease_map' = [i \in 1..Len(disease_map) |->
                       IF hit(i)
                       THEN [disease_map[i] EXCEPT
                               !.precautions = @ \ {Head(hash_order[i].precautions)}]
                       ELSE disease_map[i]]
                /\ hash_order' = [i \in 1..Len(hash_order) |->
                       IF hit(i)
                       THEN [hash_order[i] EXCEPT !.precautions = Tail(@)]
                       ELSE hash_order[i]]
           ELSE UNCHANGED <<disease_map, hash_order>>
        /\ UNCHANGED <<pc, df, symptom_list, users, session>>

\* POST /submit
Submit(c, typed_raw) ==
    /\ pc = "serving"
    /\ SubmitReply(c, typed_raw)
    /\ UNCHANGED <<pc, df, disease_map, hash_order, symptom_list, users, session>>

\* GET /history: the user's rows, newest first
RECURSIVE HistoryRows(_, _)
HistoryRows(k, username) ==
    IF k = 0 THEN <<>>
    ELSE IF reports[k].username = username
         THEN <<[id |-> k, row |-> reports[k]]>> \o HistoryRows(k - 1, username)
         ELSE HistoryRows(k - 1, username)

History(c) ==
    /\ pc = "serving"
    /\ request' = [route |-> "history", client |-> c]
    /\ response' = IF ~session[c].logged_in THEN Redirect(c, "login")
                   ELSE [kind |-> "history", client |-> c,
                         rows |-> HistoryRows(Len(reports), session[c].username)]
    /\ UNCHANGED <<pc, df, disease_map, hash_order, symptom_list, users, reports, session>>

\* (mutant) download without the comparison of row[6] with the session's username
DownloadAnyOwner(c, report_id) ==
    /\ pc = "serving"
    /\ request' = [route |-> "download", client |-> c, report_id |-> report_id]
    /\ response' =
         IF ~session[c].logged_in THEN Redirect(c, "login")
         ELSE IF report_id \notin 1..Len(reports) THEN Redirect(c, "history")
         ELSE [kind |-> "pdf", client |-> c, report_id |-> report_id,
               symptoms |-> reports[report_id].symptoms,
               disease |-> reports[report_id].disease,
               precaution |-> reports[report_id].precaution,
               medicine |-> reports[report_id].medicine,
               match_percent |-> reports[report_id].match_percent]
    /\ UNCHANGED <<pc, df, disease_map, hash_order, symptom_list, users, reports, session>>

\* GET /download/<int:report_id>
Download(c, report_id) ==
    /\ pc = "serving"
    /\ request' = [route |-> "download", client |-> c, report_id |-> report_id]
    /\ response' =
         IF ~session[c].logged_in THEN Redirect(c, "login")
         ELSE IF report_id \notin 1..Len(reports) THEN Redirect(c, "history")
         ELSE IF reports[report_id].username # session[c].username THEN Redirect(c, "history")
         ELSE [kind |-> "pdf", client |-> c, report_id |-> report_id,
               symptoms |-> reports[report_id].symptoms,
               disease |-> reports[report_id].disease,
               precaution |-> reports[report_id].precaution,
               medicine |-> reports[report_id].medicine,
               match_percent |-> reports[report_id].match_percent]
    /\ UNCHANGED <<pc, df, disease_map, hash_order, symptom_list, users, reports, session>>

----------------------------------------------------------------------------
(* Datasets *)

SeqsUpTo(S, n) == UNION {[1..k -> S] : k \in 0..n}

cF == <<"F">>
cG == <<"G">>

\* header rows: the canonical names; synonyms in other case and padding; and a
\* sheet whose disease column has a name the loader does not know
Headers ==
    { << <<" ","S","Y","M","P","T","O","M","S"," ">>, <<"D","i","s","e","a","s","e">>,
         <<"T","r","e","a","t","m","e","n","t">>, <<"d","r","u","g","s">> >>,
      << <<"S","y","m","p","t","o","m">>, <<"I","l","l">>,
         <<"P","r","e","c","a","u","t","i","o","n">>, <<"M","e","d","i","c","i","n","e">> >> }

\* missing / blank / F / G with padding
DiseaseCells == {NaN, Txt(<<" ">>), Txt(cF), Txt(<<" ", "G", " ">>)}
\* missing / "a" / "B,, A "
SymptomCells == {NaN, Txt(<<"a">>), Txt(<<"B", ",", ",", " ", "A", " ">>)}
\* the precaution and medicine cells of a row
CareCells == {<<Txt(<<"p">>), NaN>>, <<Txt(<<" ", "t">>), Txt(<<"m">>)>>}

LoadRowSet == {<<s, d, pm[1], pm[2]>> : s \in SymptomCells, d \in DiseaseCells, pm \in CareCells}

LoadDatasets == [columns : Headers, rows : SeqsUpTo(LoadRowSet, MaxRows)]

InitWith(datasets) ==
    /\ pc = "import"
    /\ df \in datasets
    /\ disease_map = <<>>
    /\ hash_order = <<>>
    /\ symptom_list = <<>>
    /\ users = <<>>
    /\ reports = <<>>
    /\ session = [c \in Clients |-> NoSession]
    /\ request = NoRequest
    /\ response = NoResponse

InitLoad == InitWith(LoadDatasets)

SpecLoad == InitLoad /\ [][LoadCSV]_vars

----------------------------------------------------------------------------
(* Requests *)

CanonicalHeader ==
    << <<"S","y","m","p","t","o","m">>, <<"D","i","s","e","a","s","e">>,
       <<"P","r","e","c","a","u","t","i","o","n">>, <<"M","e","d","i","c","i","n","e">> >>

\* F: a, ab,b / G: A / F again: b / H: b / J: c
RowF1 == <<Txt(<<"a", ",", " ", "a", "b", ",", "b">>), Txt(cF), Txt(<<"p">>), Txt(<<"m">>)>>
RowG  == <<Txt(<<"A">>), Txt(cG), NaN, NaN>>
RowF2 == <<Txt(<<"b">>), Txt(cF), Txt(<<"t">>), NaN>>
RowH  == <<Txt(<<"b">>), Txt(<<"H">>), Txt(<<"t">>), Txt(<<"m">>)>>
RowJ  == <<Txt(<<"c">>), Txt(<<"J">>), NaN, Txt(<<"m">>)>>

\* the sequences of up to n different elements of S
DistinctSeqs(S, n) == {q \in SeqsUpTo(S, n) : \A i, j \in 1..Len(q) : q[i] = q[j] => i = j}

QueryDatasets == [columns : {CanonicalHeader},
                  rows : DistinctSeqs({RowF1, RowG, RowH, RowJ}, MaxQueryRows)]

ServeDatasets == [columns : {CanonicalHeader},
                  rows : {<<RowG, RowF1, RowF2>>}]

\* typed texts: up to n pieces joined by commas; a piece is empty, blank, a
\* padded upper-case letter or two padded letters
TypedPieces == {<<>>, <<" ">>, <<" ", "A">>, <<"a", "b", " ">>}

RECURSIVE Join(_)
Join(ps) == IF Len(ps) = 1 THEN ps[1] ELSE ps[1] \o <<",">> \o Join(Tail(ps))

TypedTexts(n) == {Join(ps) : ps \in UNION {[1..k -> TypedPieces] : k \in 1..n}}

\* " ,"  /  "a"  /  " B,a"
ServeTexts == {<<" ", ",">>, <<"a">>, <<" ", "B", ",", "a">>}

UsernameInputs == {<<" ">>, <<"u", " ">>, <<"v">>}
RegisterPasswords == {<<>>, <<"p">>}
LoginPasswords == {<<"p">>, <<"q">>}

DoIndex == \E c \in Clients : Index(c)
DoRegister == \E c \in Clients, u \in UsernameInputs, p \in RegisterPasswords : Register(c, u, p)
DoLogin == \E c \in Clients, u \in UsernameInputs, p \in LoginPasswords : Login(c, u, p)
DoLogout == \E c \in Clients : Logout(c)
DoSubmit == \E c \in Clients, t \in ServeTexts :
                Len(reports) < MaxReports /\ Submit(c, t)
DoHistory == \E c \in Clients : History(c)
DoDownload == \E c \in Clients, id \in 0..MaxReports : Download(c, id)

Init == InitWith(ServeDatasets)

Next == \/ LoadCSV
        \/ DoIndex
        \/ DoRegister
        \/ DoLogin
        \/ DoLogout
        \/ DoSubmit
        \/ DoHistory
        \/ DoDownload

Spec == Init /\ [][Next]_vars

\* one user querying with every typed text: one query after each login, and a
\* deployment is followed up to its first stored report
QueryUser == <<"u">>
QueryPassword == <<"p">>

QRegister == Register(1, QueryUser, QueryPassword)
QLogin == Login(1, QueryUser, QueryPassword)
QSubmit == \E t \in TypedTexts(MaxPieces) :
               /\ reports = <<>>
               /\ session[1].logged_in
               /\ request.route # "submit"
               /\ Submit(1, t)

InitQuery == InitWith(QueryDatasets)

NextQuery == LoadCSV \/ QRegister \/ QLogin \/ QSubmit

SpecQuery == InitQuery /\ [][NextQuery]_vars

----------------------------------------------------------------------------
(* What the claims speak of, stated without the handlers' own operators *)

\* the maximal comma-free stretches of a text, as <<first, last>> positions
\* (last = first - 1 for an empty stretch)
PieceSpans(text) ==
    {sp \in (1..(Len(text) + 1)) \X (0..Len(text)) :
        /\ sp[2] >= sp[1] - 1
        /\ \A k \in sp[1]..sp[2] : text[k] # ","
        /\ (sp[1] = 1 \/ text[sp[1] - 1] = ",")
        /\ (sp[2] = Len(text) \/ text[sp[2] + 1] = ",")}

PieceAt(text, sp) == [k \in 1..(sp[2] - sp[1] + 1) |-> text[sp[1] + k - 1]]

\* a text without its leading and trailing blanks
Trimmed(text) ==
    IF \A k \in 1..Len(text) : text[k] = " " THEN <<>>
    ELSE LET a == CHOOSE i \in 1..Len(text) :
                     text[i] # " " /\ \A k \in 1..(i - 1) : text[k] = " "
             b == CHOOSE j \in 1..Len(text) :
                     text[j] # " " /\ \A k \in (j + 1)..Len(text) : text[k] = " "
         IN  [k \in 1..(b - a + 1) |-> text[a + k - 1]]

\* the stretches that are not blank, each position counted on its own
TokenSpans(text) == {sp \in PieceSpans(text) : Trimmed(PieceAt(text, sp)) # <<>>}

\* the lower-cased trimmed non-empty tokens of a typed text
Tokens(text) == {Lower(Trimmed(PieceAt(text, sp))) : sp \in TokenSpans(text)}

\* x occurs inside y
Occurs(x, y) == \E a \in 1..(Len(y) + 1), b \in 0..Len(y) :
                   b - a + 1 = Len(x) /\ \A k \in 1..Len(x) : y[a + k - 1] = x[k]

\* the symptoms of a record that a typed text matches
MatchedSet(record, text) ==
    {s \in record.symptoms :
        \E t \in Tokens(text) : Lower(s) = t \/ Occurs(t, Lower(s)) \/ Occurs(Lower(s), t)}

Answered == request.route = "submit" /\ response.kind = "result"

ResultOf(disease) ==
    {j \in 1..Len(response.results) : response.results[j].disease = disease}

----------------------------------------------------------------------------
(* Claims about matching and ranking, under SpecQuery *)

\* C1: for a typed text with at least one non-empty token, a disease is in the
\* result exactly when one of its symptoms, lower-cased, equals, contains or is
\* contained in a lower-cased trimmed token; its matched_symptoms are exactly
\* those symptoms, so no entry has an empty matched set.
C1_MatchedExactly ==
    (Answered /\ Tokens(request.typed) # {}) =>
        /\ \A i \in 1..Len(disease_map) :
              /\ Cardinality(ResultOf(disease_map[i].disease))
                   = IF MatchedSet(disease_map[i], request.typed) # {} THEN 1 ELSE 0
              /\ \A j \in ResultOf(disease_map[i].disease) :
                    /\ Range(response.results[j].matched_symptoms)
                         = MatchedSet(disease_map[i], request.typed)
                    /\ Len(response.results[j].matched_symptoms)
                         = Cardinality(MatchedSet(disease_map[i], request.typed))
        /\ \A j \in 1..Len(response.results) :
              /\ response.results[j].matched_symptoms # <<>>
              /\ \E i \in 1..Len(disease_map) :
                    disease_map[i].disease = response.results[j].disease

\* C1 witness: one symptom matched by lying inside a longer token, another by
\* holding a shorter token, while a disease of the knowledge base stayed out.
C1_Witness ==
    /\ Answered
    /\ Len(response.results) < Len(disease_map)
    /\ \E j \in 1..Len(response.results) :
          \E s1, s2 \in Range(response.results[j].matched_symptoms) :
             \E t1, t2 \in Tokens(request.typed) :
                /\ Len(s1) < Len(t1) /\ Occurs(Lower(s1), t1)
                /\ Len(s2) > Len(t2) /\ Occurs(t2, Lower(s2))

\* C2: match_percent is round(100 * |matchedSet| / |inputSymptoms|, 2), the
\* denominator counting every non-empty typed token (duplicates too) and the
\* numerator the distinct matched symptoms, without any cap.
C2_MatchPercent ==
    Answered =>
        \A i \in 1..Len(disease_map) : \A j \in ResultOf(disease_map[i].disease) :
            LET m == Cardinality(MatchedSet(disease_map[i], request.typed))
                n == Cardinality(TokenSpans(request.typed))
                p == response.results[j].match_percent
                d == p * n - 10000 * m
            IN  /\ n > 0
                /\ 2 * d <= n
                /\ 2 * (0 - d) <= n
                /\ (2 * d = n \/ 2 * (0 - d) = n) => p % 2 = 0

\* C2 witness: a token typed twice counts twice, and a disease scores over 100.
C2_Witness ==
    /\ Answered
    /\ Cardinality(TokenSpans(request.typed)) > Cardinality(Tokens(request.typed))
    /\ \E j \in 1..Len(response.results) : response.results[j].match_percent > 10000

\* C3: match_percent never increases along the result, and entries with equal
\* match_percent keep the order in which disease_map lists their diseases.
C3_RankedStable ==
    Answered =>
        \A j, k \in 1..Len(response.results) :
            j < k =>
                /\ response.results[j].match_percent >= response.results[k].match_percent
                /\ response.results[j].match_percent = response.results[k].match_percent
                     => IndexOf(disease_map, response.results[j].disease)
                          < IndexOf(disease_map, response.results[k].disease)

\* C3 witness: three entries, the sort moved a later disease to the front and
\* left two tied ones in scan order.
C3_Witness ==
    /\ Answered
    /\ Len(response.results) = 3
    /\ response.results[1].match_percent > response.results[2].match_percent
    /\ response.results[2].match_percent = response.results[3].match_percent
    /\ IndexOf(disease_map, response.results[1].disease)
         > IndexOf(disease_map, response.results[2].disease)

\* C5: a typed text without any non-empty token gets the result page with an
\* empty result and no report id, and stores no report.
C5_EmptyInput ==
    [][(request'.route = "submit" /\ Tokens(request'.typed) = {}) =>
          /\ reports' = reports
          /\ response'.kind = "result" =>
                (response'.results = <<>> /\ response'.report_id = 0)
          /\ response'.kind \in {"result", "redirect"}]_vars

\* C5 witness: " , ," and the like answered while the knowledge base holds diseases.
C5_Witness ==
    /\ Answered
    /\ disease_map # <<>>
    /\ Len(request.typed) >= 3
    /\ \E k \in 1..Len(request.typed) : request.typed[k] = " "
    /\ Tokens(request.typed) = {}
    /\ response.results = <<>>

----------------------------------------------------------------------------
(* Claims about reports and sessions, under Spec *)

TopReport(username, text, top) ==
    [username |-> username, symptoms |-> text, disease |-> top.disease,
     precaution |-> top.precaution, medicine |-> top.medicine,
     match_percent |-> top.match_percent]

\* C4 as first stated: the one report of a submission that matched holds the
\* top-ranked entry, the session's username and the raw typed text; a submission
\* that matched nothing leaves the reports alone.
C4_RawTextStored ==
    [][request'.route = "submit" =>
          IF response'.kind = "result" /\ response'.results # <<>>
          THEN reports' = Append(reports, TopReport(session[request'.client].username,
                                                    request'.typed, response'.results[1]))
          ELSE reports' = reports]_vars

\* C4: a submission stores a report only when a disease matched, and then exactly
\* one: the top-ranked entry's disease, precaution, medicine and match_percent
\* with the session's username and the typed text without its leading and
\* trailing blanks; a submission that matched nothing leaves the reports alone.
C4_TopReportStored ==
    [][request'.route = "submit" =>
          /\ IF response'.kind = "result" /\ response'.results # <<>>
             THEN /\ reports' = Append(reports,
                                       TopReport(session[request'.client].username,
                                                 Trimmed(request'.typed), response'.results[1]))
                  /\ response'.report_id = Len(reports')
                  /\ \A j \in 1..Len(response'.results) :
                        response'.results[1].match_percent >= response'.results[j].match_percent
             ELSE reports' = reports
          /\ reports' # reports =>
                \E i \in 1..Len(disease_map) : MatchedSet(disease_map[i], request'.typed) # {}]_vars

\* C4 witness: the stored report is the result's top entry, which is not the
\* first disease scanned, and its text is the typed one without the padding.
C4_Witness ==
    /\ Answered
    /\ Len(response.results) >= 2
    /\ response.report_id = Len(reports)
    /\ reports[Len(reports)].disease = response.results[1].disease
    /\ reports[Len(reports)].disease # disease_map[1].disease
    /\ reports[Len(reports)].symptoms # request.typed

\* C8: no request changes disease_map or symptom_list once they are loaded, and
\* a submission that repeats the typed text of the one before it gets the same
\* ranked result.
C8_QueryIdempotent ==
    [][/\ pc = "serving" => (disease_map' = disease_map /\ symptom_list' = symptom_list)
       /\ (/\ request.route = "submit" /\ response.kind = "result"
           /\ request'.route = "submit" /\ response'.kind = "result"
           /\ request'.typed = request.typed)
            => response'.results = response.results]_vars

\* C8 witness: the same text was submitted twice, both times with a result that
\* was stored, by different users.
C8_Witness ==
    /\ Answered
    /\ Len(reports) = 2
    /\ response.report_id = 2
    /\ reports[1].symptoms = reports[2].symptoms
    /\ reports[1].username # reports[2].username
    /\ disease_map = BuildDiseaseMap(df)

\* C10: reports only grow, by a submit of a logged-in session and with that
\* session's username; a download is answered with the report only to a session
\* logged in under the report's username, and with a redirect otherwise (to
\* login without a session, to history for a missing or foreign report).
C10_OwnReportsOnly ==
    [][/\ reports' # reports =>
             /\ request'.route = "submit"
             /\ session[request'.client].logged_in
             /\ Len(reports') = Len(reports) + 1
             /\ SubSeq(reports', 1, Len(reports)) = reports
             /\ reports'[Len(reports')].username = session[request'.client].username
       /\ response'.kind = "pdf" => request'.route = "download"
       /\ request'.route = "download" =>
             LET c == request'.client
                 id == request'.report_id
             IN  IF ~session'[c].logged_in
                 THEN response' = Redirect(c, "login")
                 ELSE IF id \notin 1..Len(reports') THEN response' = Redirect(c, "history")
                 ELSE IF reports'[id].username # session'[c].username
                 THEN response' = Redirect(c, "history")
                 ELSE /\ response'.kind = "pdf"
                      /\ response'.report_id = id
                      /\ response'.symptoms = reports'[id].symptoms
                      /\ response'.disease = reports'[id].disease
                      /\ response'.precaution = reports'[id].precaution
                      /\ response'.medicine = reports'[id].medicine
                      /\ response'.match_percent = reports'[id].match_percent]_vars

\* C10 witness: a logged-in session asked for another user's report and was
\* sent to history.
C10_Witness ==
    /\ request.route = "download"
    /\ session[request.client].logged_in
    /\ request.report_id \in 1..Len(reports)
    /\ reports[request.report_id].username # session[request.client].username
    /\ response = Redirect(request.client, "history")

----------------------------------------------------------------------------
(* Claims about the loader, under SpecLoad *)

Loaded == pc = "serving"

\* the cell of row r in the column the loader took for a field (col = 0: none)
Missing(d, col, r) == col = 0 \/ d.rows[r][col].na

\* the rows that name a disease: the cell is there and is not blank
NamedRows(d) ==
    {r \in 1..Len(d.rows) :
        ~Missing(d, dis_col(d), r) /\ Trimmed(d.rows[r][dis_col(d)].text) # <<>>}

NameOf(d, r) == Trimmed(d.rows[r][dis_col(d)].text)

RowsNaming(d, disease) == {r \in NamedRows(d) : NameOf(d, r) = disease}

\* the trimmed non-empty comma-separated pieces of a cell; none for a missing cell
CellPieces(d, col, r) ==
    IF Missing(d, col, r) THEN {}
    ELSE {Trimmed(PieceAt(d.rows[r][col].text, sp)) :
             sp \in TokenSpans(d.rows[r][col].text)}

\* the whole cell, trimmed, as the one entry of a row; none for a missing or blank cell
CellEntry(d, col, r) ==
    IF Missing(d, col, r) \/ Trimmed(d.rows[r][col].text) = <<>> THEN {}
    ELSE {Trimmed(d.rows[r][col].text)}

\* C6: a row whose disease is empty or missing (a missing cell, a blank one, no
\* disease column at all) makes no record and adds nothing to any record, and
\* every other row is loaded.
C6_MissingDiseaseSkipped ==
    Loaded =>
        /\ \A i \in 1..Len(disease_map) :
              /\ RowsNaming(df, disease_map[i].disease) # {}
              /\ disease_map[i].symptoms \subseteq
                    UNION {SymptomPieces(Canonical(df, sym_col(df), r)) :
                              r \in RowsNaming(df, disease_map[i].disease)}
              /\ disease_map[i].precautions \subseteq
                    {Strip(Canonical(df, prec_col(df), r)) :
                        r \in RowsNaming(df, disease_map[i].disease)}
              /\ disease_map[i].medicines \subseteq
                    {Strip(Canonical(df, med_col(df), r)) :
                        r \in RowsNaming(df, disease_map[i].disease)}
        /\ \A r \in NamedRows(df) : IndexOf(disease_map, NameOf(df, r)) # 0

\* C7: one record per distinct trimmed disease name; its symptoms are the union,
\* over the rows naming it, of the trimmed non-empty pieces of the symptom cell,
\* and its precautions and medicines hold each such row's whole cell.
C7_RowsMerged ==
    Loaded =>
        /\ \A i, j \in 1..Len(disease_map) :
              disease_map[i].disease = disease_map[j].disease => i = j
        /\ {disease_map[i].disease : i \in 1..Len(disease_map)}
             = {NameOf(df, r) : r \in NamedRows(df)}
        /\ \A i \in 1..Len(disease_map) :
              /\ disease_map[i].symptoms =
                    UNION {CellPieces(df, sym_col(df), r) :
                              r \in RowsNaming(df, disease_map[i].disease)}
              /\ disease_map[i].precautions =
                    UNION {CellEntry(df, prec_col(df), r) :
                              r \in RowsNaming(df, disease_map[i].disease)}
              /\ disease_map[i].medicines =
                    UNION {CellEntry(df, med_col(df), r) :
                              r \in RowsNaming(df, disease_map[i].disease)}

\* s <= t for the lower-cased strings: s is a prefix of t, or smaller at the
\* first place where they differ
LexLeq(s, t) ==
    \E k \in 0..Len(s) :
        /\ k <= Len(t)
        /\ \A i \in 1..k : s[i] = t[i]
        /\ k = Len(s) \/ (k < Len(t) /\ Ord(s[k + 1]) < Ord(t[k + 1]))

\* C9: symptom_list holds exactly the symptoms of all records, each exact string
\* once (strings that differ only in case stay apart), and the lower-cased forms
\* never decrease along it.
C9_SymptomList ==
    Loaded =>
        /\ Range(symptom_list) = UNION {disease_map[i].symptoms : i \in 1..Len(disease_map)}
        /\ \A i, j \in 1..Len(symptom_list) : symptom_list[i] = symptom_list[j] => i = j
        /\ \A i, j \in 1..Len(symptom_list) :
              i < j => LexLeq(Lower(symptom_list[i]), Lower(symptom_list[j]))

\* C9 witness: symptoms of two diseases, two of them differing only in case and
\* a third sorted after them.
C9_Witness ==
    /\ Loaded
    /\ Len(disease_map) >= 2
    /\ \E i, j, k \in 1..Len(symptom_list) :
          /\ i < j /\ j < k
          /\ symptom_list[i] # symptom_list[j]
          /\ Lower(symptom_list[i]) = Lower(symptom_list[j])
          /\ Lower(symptom_list[k]) # Lower(symptom_list[j])

====
